---------------------------- MODULE Spec2Model ----------------------------
(* Commit graph of go/datas: the type of a commit computed by NewCommit,   *)
(* and the ancestry searches CommitDescendsFrom and FindCommonAncestor     *)
(* over a DAG of commits reached through a value reader.                   *)
EXTENDS Integers, Sequences, FiniteSets, TLC

VARIABLES
    parents,      \* parents[c]: the set of refs in commit c's "parents" field
    height,       \* height[c]: the height carried by every ref to commit c
    missing,      \* commits the value reader cannot resolve
    op,           \* which operation this run performs
    c1, c2,       \* the arguments of the running operation
    c1Q, c2Q,     \* FindCommonAncestor: the two RefByHeight queues
    ancestors,    \* CommitDescendsFrom: the frontier set
    pc,           \* position of the running operation
    result,       \* what the operation returned
    calls,        \* number of loop iterations executed so far
    failed,       \* number of dereferences that failed
    first,        \* symmetric run: result of the first call
    chain         \* commits built by NewCommit, oldest first

vars == <<parents, height, missing, op, c1, c2, c1Q, c2Q, ancestors, pc,
          result, calls, failed, first, chain>>

(* ------------------------------ bounds -------------------------------- *)
NumCommits == 4
MaxValueHeight == 2
MaxChain == 3

Commits == 1..NumCommits
NoCommit == 0

Max(S) == IF S = {} THEN 0 ELSE CHOOSE x \in S : \A y \in S : y <= x

(* --------------------------- commit graphs ---------------------------- *)
(* Every DAG over Commits in which a commit's parents were committed       *)
(* before it: parents are refs to existing values.                         *)
RECURSIVE Graphs(_)
Graphs(n) ==
    IF n = 0 THEN {<<>>}
    ELSE {Append(g, ps) : g \in Graphs(n - 1), ps \in SUBSET (1..(n - 1))}

(* Ref height: 1 + the greatest height of a ref contained in the value.    *)
(* vh[c] is the greatest height of a ref inside c's value or meta field    *)
(* (0 when they hold none).                                                *)
RECURSIVE RefHeight(_, _, _)
RefHeight(g, vh, c) ==
    1 + Max({vh[c]} \cup {RefHeight(g, vh, p) : p \in g[c]})

ValueHeights == [Commits -> {0, MaxValueHeight}]

(* --------------------------- value reader ----------------------------- *)
Resolves(r) == r \notin missing

(* ---------------------------- RefByHeight ----------------------------- *)
(* A slice of refs kept sorted by height, greatest first; refs of equal    *)
(* height are ordered by target hash (here: the commit number).            *)
RefLess(a, b) ==
    \/ height[a] > height[b]
    \/ height[a] = height[b] /\ a < b

RECURSIVE InsertRef(_, _)
InsertRef(q, r) ==
    IF q = <<>> THEN <<r>>
    ELSE IF RefLess(Head(q), r) \/ Head(q) = r
         THEN <<Head(q)>> \o InsertRef(Tail(q), r)
         ELSE <<r>> \o q

RECURSIVE SortRefs(_)
SortRefs(q) == IF q = <<>> THEN <<>> ELSE InsertRef(SortRefs(Tail(q)), Head(q))

QEmpty(q) == Len(q) = 0

MaxHeight(q) == IF Len(q) = 0 THEN 0 ELSE height[Head(q)]

RECURSIVE PopRefsOfHeight(_, _)
PopRefsOfHeight(q, h) ==
    IF Len(q) > 0 /\ MaxHeight(q) = h
    THEN <<Head(q)>> \o PopRefsOfHeight(Tail(q), h)
    ELSE <<>>

AfterPop(q, h) == SubSeq(q, Len(PopRefsOfHeight(q, h)) + 1, Len(q))

RECURSIVE SetToSeq(_)
SetToSeq(S) ==
    IF S = {} THEN <<>>
    ELSE LET x == CHOOSE y \in S : \A z \in S : y <= z
         IN <<x>> \o SetToSeq(S \ {x})

Range(s) == {s[i] : i \in 1..Len(s)}

(* -------------------------- FindCommonAncestor ------------------------ *)
RECURSIVE PushParents(_, _)
PushParents(refs, q) ==
    IF refs = <<>> THEN q
    ELSE PushParents(Tail(refs), q \o SetToSeq(parents[Head(refs)]))

(* parentsToQueue without its final sort.Sort(q). *)
parentsToQueueUnsorted(refs, q) == PushParents(refs, q)

(* parentsToQueue pushing only the parents of the first ref of the group. *)
parentsToQueueFirstRefOnly(refs, q) ==
    SortRefs(IF refs = <<>> THEN q ELSE q \o SetToSeq(parents[Head(refs)]))

parentsToQueue(refs, q) == SortRefs(PushParents(refs, q))

AllResolve(refs) == \A i \in 1..Len(refs) : Resolves(refs[i])

(* findCommonRef returning a ref of a without looking it up in b. *)
findCommonRefUnchecked(a, b) == Range(a)

(* The refs findCommonRef may return: it ranges over a map, so any ref of  *)
(* a whose target hash is also in b can come first.                        *)
findCommonRef(a, b) == {r \in Range(a) : r \in Range(b)}

NoResult == [ok |-> FALSE, a |-> NoCommit]

FCAStart(x, y) ==
    /\ c1' = x /\ c2' = y
    /\ c1Q' = <<x>> /\ c2Q' = <<y>>
    /\ pc' = "loop"

FCAEqual ==
    /\ op \in {"fca", "sym", "sym2"} /\ pc = "loop"
    /\ ~QEmpty(c1Q) /\ ~QEmpty(c2Q)
    /\ MaxHeight(c1Q) = MaxHeight(c2Q)
    /\ LET c1Ht == MaxHeight(c1Q)
           c2Ht == MaxHeight(c2Q)
           c1Parents == PopRefsOfHeight(c1Q, c1Ht)
           c2Parents == PopRefsOfHeight(c2Q, c2Ht)
           q1 == AfterPop(c1Q, c1Ht)
           q2 == AfterPop(c2Q, c2Ht)
       IN IF findCommonRef(c1Parents, c2Parents) # {}
          THEN \E common \in findCommonRef(c1Parents, c2Parents) :
                 /\ c1Q' = q1 /\ c2Q' = q2
                 /\ IF Resolves(common)
                    THEN /\ pc' = "done"
                         /\ result' = [ok |-> TRUE, a |-> common]
                         /\ failed' = failed
                    ELSE /\ pc' = "panic"
                         /\ result' = result
                         /\ failed' = failed + 1
          ELSE IF ~AllResolve(c1Parents)
          THEN /\ pc' = "panic" /\ failed' = failed + 1
               /\ c1Q' = q1 /\ c2Q' = q2
               /\ result' = result
          ELSE IF ~AllResolve(c2Parents)
          THEN /\ pc' = "panic" /\ failed' = failed + 1
               /\ c1Q' = parentsToQueue(c1Parents, q1) /\ c2Q' = q2
               /\ result' = result
          ELSE /\ c1Q' = parentsToQueue(c1Parents, q1)
               /\ c2Q' = parentsToQueue(c2Parents, q2)
               /\ pc' = "loop"
               /\ UNCHANGED <<result, failed>>
    /\ calls' = calls + 1
    /\ UNCHANGED <<parents, height, missing, op, c1, c2, ancestors, first, chain>>

(* FCAFirstHigher reading the refs of the greatest height without popping. *)
FCAFirstHigherPeek ==
    /\ op \in {"fca", "sym", "sym2"} /\ pc = "loop"
    /\ ~QEmpty(c1Q) /\ ~QEmpty(c2Q)
    /\ MaxHeight(c1Q) > MaxHeight(c2Q)
    /\ c1Q' = parentsToQueue(PopRefsOfHeight(c1Q, MaxHeight(c1Q)), c1Q)
    /\ calls' = calls + 1
    /\ UNCHANGED <<parents, height, missing, op, c1, c2, c2Q, ancestors, pc,
                   result, failed, first, chain>>

FCAFirstHigher ==
    /\ op \in {"fca", "sym", "sym2"} /\ pc = "loop"
    /\ ~QEmpty(c1Q) /\ ~QEmpty(c2Q)
    /\ MaxHeight(c1Q) > MaxHeight(c2Q)
    /\ LET c1Ht == MaxHeight(c1Q)
           popped == PopRefsOfHeight(c1Q, c1Ht)
       IN IF AllResolve(popped)
          THEN /\ c1Q' = parentsToQueue(popped, AfterPop(c1Q, c1Ht))
               /\ pc' = "loop" /\ failed' = failed
          ELSE /\ c1Q' = AfterPop(c1Q, c1Ht)
               /\ pc' = "panic" /\ failed' = failed + 1
    /\ calls' = calls + 1
    /\ UNCHANGED <<parents, height, missing, op, c1, c2, c2Q, ancestors,
                   result, first, chain>>

FCASecondHigher ==
    /\ op \in {"fca", "sym", "sym2"} /\ pc = "loop"
    /\ ~QEmpty(c1Q) /\ ~QEmpty(c2Q)
    /\ MaxHeight(c1Q) < MaxHeight(c2Q)
    /\ LET c2Ht == MaxHeight(c2Q)
           popped == PopRefsOfHeight(c2Q, c2Ht)
       IN IF AllResolve(popped)
          THEN /\ c2Q' = parentsToQueue(popped, AfterPop(c2Q, c2Ht))
               /\ pc' = "loop" /\ failed' = failed
          ELSE /\ c2Q' = AfterPop(c2Q, c2Ht)
               /\ pc' = "panic" /\ failed' = failed + 1
    /\ calls' = calls + 1
    /\ UNCHANGED <<parents, height, missing, op, c1, c2, c1Q, ancestors,
                   result, first, chain>>

FCANone ==
    /\ op \in {"fca", "sym", "sym2"} /\ pc = "loop"
    /\ QEmpty(c1Q) \/ QEmpty(c2Q)
    /\ pc' = "done"
    /\ result' = NoResult
    /\ UNCHANGED <<parents, height, missing, op, c1, c2, c1Q, c2Q, ancestors,
                   calls, failed, first, chain>>

(* -------------------------- CommitDescendsFrom ------------------------ *)
(* getAncestors: the parents, of height >= minHeight, of the commits of    *)
(* height > minHeight.                                                     *)
(* getAncestors keeping only the parents strictly above minHeight. *)
getAncestorsAbove(commits, minHeight) ==
    UNION {{r \in parents[c] : height[r] > minHeight} :
             c \in {x \in commits : height[x] > minHeight}}

(* getAncestors keeping every parent, whatever its height. *)
getAncestorsUnfiltered(commits, minHeight) ==
    UNION {parents[c] : c \in {x \in commits : height[x] > minHeight}}

getAncestors(commits, minHeight) ==
    UNION {{r \in parents[c] : height[r] >= minHeight} :
             c \in {x \in commits : height[x] > minHeight}}

Answer(b) == [ok |-> b, a |-> NoCommit]

CDFFound ==
    /\ op = "cdf" /\ pc = "loop"
    /\ c2 \in ancestors
    /\ pc' = "done"
    /\ result' = Answer(TRUE)
    /\ UNCHANGED <<parents, height, missing, op, c1, c2, c1Q, c2Q, ancestors,
                   calls, failed, first, chain>>

CDFEmpty ==
    /\ op = "cdf" /\ pc = "loop"
    /\ c2 \notin ancestors
    /\ ancestors = {}
    /\ pc' = "done"
    /\ result' = Answer(FALSE)
    /\ UNCHANGED <<parents, height, missing, op, c1, c2, c1Q, c2Q, ancestors,
                   calls, failed, first, chain>>

(* CDFExpand carrying on past a ref the reader cannot resolve. *)
CDFExpandSkipUnresolved ==
    /\ op = "cdf" /\ pc = "loop"
    /\ c2 \notin ancestors
    /\ ancestors # {}
    /\ ancestors' = getAncestors(ancestors \ missing, height[c2])
    /\ failed' = IF ancestors \cap missing # {} THEN failed + 1 ELSE failed
    /\ calls' = calls + 1
    /\ UNCHANGED <<parents, height, missing, op, c1, c2, c1Q, c2Q, pc, result,
                   first, chain>>

CDFExpand ==
    /\ op = "cdf" /\ pc = "loop"
    /\ c2 \notin ancestors
    /\ ancestors # {}
    /\ IF \A r \in ancestors : Resolves(r)
       THEN /\ ancestors' = getAncestors(ancestors, height[c2])
            /\ pc' = "loop" /\ failed' = failed
       ELSE /\ ancestors' = ancestors
            /\ pc' = "panic" /\ failed' = failed + 1
    /\ calls' = calls + 1
    /\ UNCHANGED <<parents, height, missing, op, c1, c2, c1Q, c2Q, result,
                   first, chain>>

(* --------------------- two calls, arguments swapped ------------------- *)
SymSwap ==
    /\ op = "sym" /\ pc = "done"
    /\ first' = result
    /\ op' = "sym2"
    /\ FCAStart(c2, c1)
    /\ result' = NoResult
    /\ calls' = 0
    /\ UNCHANGED <<parents, height, missing, ancestors, failed, chain>>

(* ------------------------------- graphs ------------------------------- *)
InitGraph(vhs, miss) ==
    /\ parents \in Graphs(NumCommits)
    /\ \E vh \in vhs : height = [c \in Commits |-> RefHeight(parents, vh, c)]
    /\ missing \in miss

Idle ==
    /\ ancestors = {} /\ result = NoResult /\ calls = 0 /\ failed = 0
    /\ first = NoResult /\ chain = <<>>

InitFCA ==
    /\ InitGraph(ValueHeights, {{}})
    /\ op = "fca"
    /\ c1 \in Commits /\ c2 \in Commits
    /\ c1Q = <<c1>> /\ c2Q = <<c2>>
    /\ pc = "loop"
    /\ Idle

NextFCA == FCAEqual \/ FCAFirstHigher \/ FCASecondHigher \/ FCANone

SpecFCA == InitFCA /\ [][NextFCA]_vars

InitSym ==
    /\ InitGraph(ValueHeights, {{}})
    /\ op = "sym"
    /\ c1 \in Commits /\ c2 \in Commits
    /\ c1Q = <<c1>> /\ c2Q = <<c2>>
    /\ pc = "loop"
    /\ Idle

NextSym == NextFCA \/ SymSwap

SpecSym == InitSym /\ [][NextSym]_vars

InitCDF ==
    /\ InitGraph(ValueHeights, {{}})
    /\ op = "cdf"
    /\ c1 \in Commits /\ c2 \in Commits
    /\ c1Q = <<>> /\ c2Q = <<>>
    /\ ancestors = parents[c1]
    /\ pc = "loop"
    /\ result = NoResult /\ calls = 0 /\ failed = 0
    /\ first = NoResult /\ chain = <<>>

NextCDF == CDFFound \/ CDFEmpty \/ CDFExpand

SpecCDF == InitCDF /\ [][NextCDF]_vars

(* Runs against a reader that cannot resolve up to MaxMissing commits.     *)
MaxMissing == 1
NoValueRefs == {[c \in Commits |-> 0]}

InitErr ==
    /\ InitGraph(NoValueRefs, {m \in SUBSET Commits : Cardinality(m) <= MaxMissing})
    /\ op \in {"fca", "cdf"}
    /\ c1 \in Commits /\ c2 \in Commits
    /\ c1Q = (IF op = "fca" THEN <<c1>> ELSE <<>>)
    /\ c2Q = (IF op = "fca" THEN <<c2>> ELSE <<>>)
    /\ ancestors = (IF op = "cdf" THEN parents[c1] ELSE {})
    /\ pc = "loop"
    /\ result = NoResult /\ calls = 0 /\ failed = 0
    /\ first = NoResult /\ chain = <<>>

NextErr == NextFCA \/ NextCDF

SpecErr == InitErr /\ [][NextErr]_vars


(* ------------------------------ NewCommit ----------------------------- *)
(* A type is the set of its alternatives: a union type is the set of its   *)
(* members and any other type is a singleton.                              *)
ValueTypes == {"Number", "String"}
MetaTypes == {"EmptyStruct", "Meta"}

ParentsField == "parents"
ValueField == "value"
MetaField == "meta"

(* types.MakeUnionType: flattens and removes duplicates; the union of one  *)
(* type is that type.                                                      *)
MakeUnionType(ts) == UNION Range(ts)

(* Set<Ref<Cycle<0>>> *)
CycleParentsType == [kind |-> "cycle", meta |-> {}, value |-> {}]

(* Set<Ref<struct Commit {meta: mu, parents: Set<Ref<Cycle<0>>>, value: vu}>> *)
StructParentsType(mu, vu) == [kind |-> "struct", meta |-> mu, value |-> vu]

(* makeCommitType choosing the cyclic form when either union is unchanged. *)
makeCommitTypeEither(valueType, parentsValueTypes, metaType, parentsMetaTypes) ==
    LET parentsValueUnionType == MakeUnionType(Append(parentsValueTypes, valueType))
        parentsMetaUnionType == MakeUnionType(Append(parentsMetaTypes, metaType))
        parentsType ==
            IF parentsValueUnionType = valueType \/ parentsMetaUnionType = metaType
            THEN CycleParentsType
            ELSE StructParentsType(parentsMetaUnionType, parentsValueUnionType)
    IN [name |-> "Commit", fields |-> <<MetaField, ParentsField, ValueField>>,
        meta |-> metaType, parents |-> parentsType, value |-> valueType]

makeCommitType(valueType, parentsValueTypes, metaType, parentsMetaTypes) ==
    LET tmp == Append(parentsValueTypes, valueType)
        parentsValueUnionType == MakeUnionType(tmp)
        tmp2 == Append(parentsMetaTypes, metaType)
        parentsMetaUnionType == MakeUnionType(tmp2)
        fieldNames == <<MetaField, ParentsField, ValueField>>
        parentsType ==
            IF parentsValueUnionType = valueType /\ parentsMetaUnionType = metaType
            THEN CycleParentsType
            ELSE StructParentsType(parentsMetaUnionType, parentsValueUnionType)
    IN [name |-> "Commit", fields |-> fieldNames,
        meta |-> metaType, parents |-> parentsType, value |-> valueType]

(* fieldTypeFromCommit reading the meta field whatever the field name. *)
fieldTypeFromCommitMeta(t, fieldName) == t.meta

fieldTypeFromCommit(t, fieldName) ==
    IF fieldName = ValueField THEN t.value ELSE t.meta

(* A ref type Ref<t> is modelled by its element type t.                    *)
getRefElementType(t) == t

fieldTypeFromRefOfCommit(t, fieldName) ==
    fieldTypeFromCommit(getRefElementType(t), fieldName)

(* The element types of the type of a set of refs to the commits ps of     *)
(* the chain: one Ref<type> per distinct commit type; the set's element    *)
(* type is their union (a union kind unless there is exactly one).         *)
SetElemTypes(ch, ps) == {ch[p].type : p \in ps}

RECURSIVE TypesToSeq(_)
TypesToSeq(S) ==
    IF S = {} THEN <<>>
    ELSE LET x == CHOOSE y \in S : TRUE IN <<x>> \o TypesToSeq(S \ {x})

RECURSIVE FieldTypes(_, _)
FieldTypes(ts, fieldName) ==
    IF ts = <<>> THEN <<>>
    ELSE <<fieldTypeFromRefOfCommit(Head(ts), fieldName)>>
             \o FieldTypes(Tail(ts), fieldName)

valueTypesFromParents(elemTypes, fieldName) ==
    IF Cardinality(elemTypes) # 1
    THEN FieldTypes(TypesToSeq(elemTypes), fieldName)
    ELSE <<fieldTypeFromRefOfCommit(CHOOSE t \in elemTypes : TRUE, fieldName)>>

NewCommit(ch, valueType, ps, metaType) ==
    LET elemTypes == SetElemTypes(ch, ps)
        t == makeCommitType(valueType, valueTypesFromParents(elemTypes, ValueField),
                            metaType, valueTypesFromParents(elemTypes, MetaField))
    IN [value |-> valueType, meta |-> metaType, parents |-> ps, type |-> t]

CommitStep ==
    /\ op = "new"
    /\ Len(chain) < MaxChain
    /\ \E v \in ValueTypes, m \in MetaTypes, ps \in SUBSET (1..Len(chain)) :
         chain' = Append(chain, NewCommit(chain, {v}, ps, {m}))
    /\ UNCHANGED <<parents, height, missing, op, c1, c2, c1Q, c2Q, ancestors,
                   pc, result, calls, failed, first>>

InitType ==
    /\ parents = <<>> /\ height = <<>> /\ missing = {}
    /\ op = "new"
    /\ c1 = NoCommit /\ c2 = NoCommit
    /\ c1Q = <<>> /\ c2Q = <<>>
    /\ pc = "done"
    /\ Idle

NextType == CommitStep

SpecType == InitType /\ [][NextType]_vars

(* ====================================================================== *)
(* Properties                                                              *)
(* ====================================================================== *)
RECURSIVE AncestorsOrSelf(_)
AncestorsOrSelf(c) == {c} \cup UNION {AncestorsOrSelf(p) : p \in parents[c]}

StrictAncestors(c) == UNION {AncestorsOrSelf(p) : p \in parents[c]}

CommonAncestors == AncestorsOrSelf(c1) \cap AncestorsOrSelf(c2)

Heights(S) == {height[r] : r \in S}

Returned == pc = "done"

(* C1: when FindCommonAncestor(c1, c2) returns ok, the returned commit is  *)
(* an ancestor-or-self of both c1 and c2, no common ancestor is higher     *)
(* than it, no other common ancestor descends from it, and when c1 is an   *)
(* ancestor-or-self of c2 the result is c1.                                *)
C1_MostRecentCommonAncestor ==
    (op = "fca" /\ Returned) =>
        /\ result.ok =>
             /\ result.a \in CommonAncestors
             /\ \A x \in CommonAncestors : height[x] <= height[result.a]
             /\ \A x \in CommonAncestors \ {result.a} :
                    result.a \notin AncestorsOrSelf(x)
        /\ c1 \in AncestorsOrSelf(c2) => result = [ok |-> TRUE, a |-> c1]

C1_Witness ==
    /\ op = "fca" /\ Returned /\ result.ok
    /\ result.a \notin {c1, c2}
    /\ Cardinality(CommonAncestors) >= 2
    /\ height[c1] # height[c2]

(* C2: FindCommonAncestor returns ok = false exactly when c1 and c2 have   *)
(* no common ancestor-or-self, and while a common ancestor exists neither  *)
(* frontier is empty.                                                      *)
C2_NoneIffDisjoint ==
    op = "fca" =>
        /\ Returned => (result.ok = FALSE <=> CommonAncestors = {})
        /\ (pc = "loop" /\ CommonAncestors # {}) => (~QEmpty(c1Q) /\ ~QEmpty(c2Q))

C2_Witness ==
    /\ op = "fca" /\ Returned /\ ~result.ok
    /\ parents[c1] # {} /\ parents[c2] # {}
    /\ calls >= 2

(* One iteration of the FindCommonAncestor loop, frontier by frontier. *)
C9_Iteration ==
    (op = "fca" /\ pc = "loop" /\ calls' = calls + 1) =>
        LET h1 == Max(Heights(Range(c1Q)))
            h2 == Max(Heights(Range(c2Q)))
        IN /\ h1 >= h2 => Max(Heights(Range(c1Q'))) < h1
           /\ h2 >= h1 => Max(Heights(Range(c2Q'))) < h2
           /\ h1 < h2 => c1Q' = c1Q
           /\ h2 < h1 => c2Q' = c2Q
           /\ Max(Heights(Range(c1Q'))) <= h1
           /\ Max(Heights(Range(c2Q'))) <= h2

C9_Progress ==
    op = "fca" =>
        /\ pc \in {"loop", "done"}
        /\ calls <= height[c1] + height[c2]
        /\ Returned => (result.ok \/ QEmpty(c1Q) \/ QEmpty(c2Q))

(* C9: every iteration of FindCommonAncestor removes all refs of the       *)
(* greatest height from the frontier(s) that are at least as high as the   *)
(* other, leaves only lower refs there, does not touch a strictly lower    *)
(* frontier and never raises a frontier's greatest height; the loop runs   *)
(* at most height(c1) + height(c2) iterations (calls counts them) and it   *)
(* ends with a common ref found or with an empty frontier.                 *)
C9_Terminates == [][C9_Iteration]_vars /\ []C9_Progress

C9_Witness ==
    /\ op = "fca" /\ Returned /\ calls >= 3
    /\ Len(c1Q) + Len(c2Q) >= 1

(* C3: CommitDescendsFrom(c, r) is true exactly when r's target is         *)
(* reachable from c by one or more parents edges (so never for r = ref to  *)
(* c), and until it returns the frontier keeps a member on a path to r.    *)
C3_DescendsIffReachable ==
    op = "cdf" =>
        /\ Returned => (result.ok <=> c2 \in StrictAncestors(c1))
        /\ (Returned /\ c1 = c2) => ~result.ok
        /\ (pc = "loop" /\ c2 \in StrictAncestors(c1)) =>
               \E f \in ancestors : c2 \in AncestorsOrSelf(f)

C3_Witness ==
    /\ op = "cdf" /\ Returned /\ result.ok
    /\ c2 \notin parents[c1]
    /\ calls >= 1
    /\ \E p \in parents[c1] : height[p] < height[c2]

(* What one getAncestors call does to the CommitDescendsFrom frontier. *)
C8_Frontier ==
    (op = "cdf" /\ pc = "loop" /\ pc' = "loop") =>
        /\ \A r \in ancestors' :
             /\ height[r] >= height[c2]
             /\ \E c \in ancestors : height[c] > height[c2] /\ r \in parents[c]
        /\ Max(Heights(ancestors')) < Max(Heights(ancestors))

(* C8 (as stated): each frontier getAncestors computes holds only parents  *)
(* of frontier commits strictly higher than the ancestor ref, all of       *)
(* height >= the ancestor's; the frontier's greatest height strictly       *)
(* decreases; the loop ends after at most height(commit) -                 *)
(* height(ancestor) expansions (none when the difference is negative).     *)
C8_Original ==
    [][C8_Frontier]_vars /\ [](op = "cdf" => calls <= Max({0, height[c1] - height[c2]}))

(* C8 (amended): as above, and the loop ends after at most                 *)
(* max(1, height(commit) - height(ancestor)) calls of getAncestors.        *)
C8_PrunedFrontier ==
    [][C8_Frontier]_vars
        /\ [](op = "cdf" => calls <= Max({1, height[c1] - height[c2]}))

C8_Witness ==
    /\ op = "cdf" /\ Returned
    /\ calls >= 2
    /\ calls = height[c1] - height[c2]
    /\ ~result.ok

(* C4 (as stated): when FindCommonAncestor(c1, c2) and                     *)
(* FindCommonAncestor(c2, c1) both return a commit, the two commits are    *)
(* equal, also when several common ancestors share the greatest height.    *)
C4_Original ==
    (op = "sym2" /\ Returned /\ first.ok /\ result.ok) => first.a = result.a

TopCommonAncestors ==
    {x \in CommonAncestors : \A y \in CommonAncestors : height[y] <= height[x]}

(* C4 (amended): when both calls return a commit, each is a common         *)
(* ancestor of the greatest height, and the two are equal whenever exactly *)
(* one common ancestor has that height.                                    *)
C4_SymmetricUpToTies ==
    (op = "sym2" /\ Returned /\ first.ok /\ result.ok) =>
        /\ first.a \in TopCommonAncestors
        /\ result.a \in TopCommonAncestors
        /\ Cardinality(TopCommonAncestors) = 1 => first.a = result.a

C4_Witness ==
    /\ op = "sym2" /\ Returned /\ first.ok /\ result.ok
    /\ Cardinality(TopCommonAncestors) = 1
    /\ first.a \notin {c1, c2}
    /\ height[c1] # height[c2]

(* C10: a dereference the reader cannot resolve ends the operation in that *)
(* failure, at once and without a second attempt; an operation that        *)
(* returns has had every dereference succeed, and its answer is the one    *)
(* the whole graph gives.                                                  *)
C10_FailurePropagates ==
    /\ failed > 0 => (pc = "panic" /\ failed = 1)
    /\ pc = "panic" => failed = 1
    /\ Returned =>
         /\ failed = 0
         /\ op = "cdf" => (result.ok <=> c2 \in StrictAncestors(c1))
         /\ op = "fca" =>
              /\ result.ok <=> CommonAncestors # {}
              /\ result.ok => result.a \in TopCommonAncestors \ missing

C10_Witness ==
    /\ op = "cdf" /\ pc = "panic"
    /\ calls >= 2
    /\ c2 \in StrictAncestors(c1)

(* C5: in a chain whose commits all have value type T and meta type M,     *)
(* every commit has the type                                               *)
(* Commit{meta: M, parents: Set<Ref<Cycle<0>>>, value: T}.                 *)
C5_TypeStability ==
    op = "new" =>
        \A T \in ValueTypes, M \in MetaTypes :
            (\A i \in 1..Len(chain) : chain[i].value = {T} /\ chain[i].meta = {M})
            => \A i \in 1..Len(chain) :
                   chain[i].type =
                       [name |-> "Commit", fields |-> <<"meta", "parents", "value">>,
                        meta |-> {M}, parents |-> CycleParentsType, value |-> {T}]

C5_Witness ==
    /\ op = "new" /\ Len(chain) >= 3
    /\ \A i \in 1..Len(chain) : chain[i].value = {"Number"} /\ chain[i].meta = {"Meta"}
    /\ chain[2].parents = {1} /\ chain[3].parents = {1, 2}

(* The value types and meta types a commit type declares for its parents.  *)
DeclaredValueTypes(t) == IF t.parents.kind = "cycle" THEN t.value ELSE t.parents.value
DeclaredMetaTypes(t) == IF t.parents.kind = "cycle" THEN t.meta ELSE t.parents.meta

(* C6: a commit whose parents include a commit whose parents-field type    *)
(* declares unions has a parents-field type whose value and meta unions    *)
(* contain every member of that parent's unions.                           *)
C6_WideningMonotone ==
    op = "new" =>
        \A i \in 1..Len(chain) : \A p \in chain[i].parents :
            chain[p].type.parents.kind = "struct" =>
                /\ chain[p].type.parents.value \subseteq DeclaredValueTypes(chain[i].type)
                /\ chain[p].type.parents.meta \subseteq DeclaredMetaTypes(chain[i].type)

(* C7: NewCommit(value, parents, meta) is a struct Commit with fields      *)
(* meta, parents, value typed type(meta), P, type(value), where with VU    *)
(* and MU the unions of the own type and the field types declared by the   *)
(* parents set's element types, P is Set<Ref<Cycle<0>>> iff VU = type(value) *)
(* and MU = type(meta), and else Set<Ref<Commit{MU, Set<Ref<Cycle<0>>>, VU}>>. *)
C7_CommitTypeShape ==
    op = "new" =>
        \A i \in 1..Len(chain) :
            LET c == chain[i]
                VU == c.value \cup UNION {chain[p].type.value : p \in c.parents}
                MU == c.meta \cup UNION {chain[p].type.meta : p \in c.parents}
            IN /\ c.type.name = "Commit"
               /\ c.type.fields = <<"meta", "parents", "value">>
               /\ c.type.meta = c.meta
               /\ c.type.value = c.value
               /\ c.type.parents = CycleParentsType <=> (VU = c.value /\ MU = c.meta)
               /\ c.type.parents # CycleParentsType =>
                      c.type.parents = [kind |-> "struct", meta |-> MU, value |-> VU]
               /\ c.parents = {} => c.type.parents = CycleParentsType

C7_Witness ==
    /\ op = "new" /\ Len(chain) >= 3
    /\ chain[3].parents = {1, 2}
    /\ chain[1].type # chain[2].type
    /\ chain[3].type.parents.kind = "struct"
    /\ chain[3].type.parents.value = chain[3].value
    /\ Cardinality(chain[3].type.parents.meta) = 2

=============================================================================
